---- MODULE Spec2Model ----
(***************************************************************************)
(* Model of the Clarion application generator (src/src/index.ts).          *)
(*                                                                         *)
(* A string is a sequence of tokens.  A token is a single character, or a  *)
(* literal chunk of template text ("manifest.json", "-backend") that the   *)
(* program only ever concatenates and never splits or case-converts.       *)
(* A path is a sequence of segments (each a string), rooted at "/".        *)
(***************************************************************************)
EXTENDS Integers, Sequences, FiniteSets

VARIABLES
  pc,        \* per run: "idle" (prompting), "derive", "body" (at statement ip),
             \*   "mkdir" (inside createDirIfNotExists, the directory found
             \*   missing), "rejected" (main has thrown), "exited"
  body,      \* per run: the statements of main's body, arguments evaluated
  ip,        \* per run: index of the statement of main's body reached
  answers,   \* per run: the UserInput returned by inquirer.prompt
  names,     \* per run: the constants main derives from fullAppName
  stdout,    \* per run: the lines written by console.log
  stderr,    \* per run: the lines written by console.error
  exitCode,  \* per run: -1 while running, else the process exit code
  dirs,      \* the file system: the set of directories
  files,     \* the file system: the set of [path, content] regular files
  ensured,   \* per run: paths on which createDirIfNotExists has returned
  fsFailed,  \* per run: whether an fs call of the run has thrown
  raced      \* runs whose mkdirSync found the directory already created

vars == <<pc, body, ip, answers, names, stdout, stderr, exitCode, dirs, files,
          ensured, fsFailed, raced>>

(***************************************************************************)
(* Bounds of the model.                                                    *)
(***************************************************************************)
\* longest fullAppName enumerated for the name-derivation specification
MaxNameLen == 5
\* longest fullAppName enumerated for a single generator run
MaxRunNameLen == 4
\* longest fullAppName enumerated for a run followed by a second run
MaxRerunNameLen == 3
\* longest fullAppName enumerated for two runs at once
MaxRaceNameLen == 2

Runs == {1, 2}

(***************************************************************************)
(* Strings.                                                                *)
(***************************************************************************)
LowerLetters == <<"a", "b", "i", "p">>
UpperLetters == <<"A", "B", "I", "P">>

LetterIndex(tbl, c) == CHOOSE i \in 1..Len(tbl) : tbl[i] = c

IsLetterOf(tbl, c) == \E i \in 1..Len(tbl) : tbl[i] = c

\* String.prototype.toUpperCase on one character
UpperChar(c) ==
  IF IsLetterOf(LowerLetters, c) THEN UpperLetters[LetterIndex(LowerLetters, c)] ELSE c

\* String.prototype.toLowerCase on one character
LowerChar(c) ==
  IF IsLetterOf(UpperLetters, c) THEN LowerLetters[LetterIndex(UpperLetters, c)] ELSE c

toUpperCase(str) == [i \in 1..Len(str) |-> UpperChar(str[i])]

toLowerCase(str) == [i \in 1..Len(str) |-> LowerChar(str[i])]

\* str.charAt(0): the first character, or '' for the empty string
charAt0(str) == IF Len(str) = 0 THEN <<>> ELSE <<str[1]>>

\* str.slice(1)
slice1(str) == IF Len(str) = 0 THEN <<>> ELSE Tail(str)

\* str.split(sep) for a one-character separator: splits at EVERY occurrence
RECURSIVE split(_, _)
split(str, sep) ==
  IF \A i \in 1..Len(str) : str[i] # sep
  THEN <<str>>
  ELSE LET i == CHOOSE k \in 1..Len(str) :
                  str[k] = sep /\ \A j \in 1..(k - 1) : str[j] # sep
       IN <<SubSeq(str, 1, i - 1)>> \o split(SubSeq(str, i + 1, Len(str)), sep)

\* Array.prototype.join('')
RECURSIVE join(_)
join(parts) == IF parts = <<>> THEN <<>> ELSE Head(parts) \o join(Tail(parts))

\* the value of a destructured array element that is missing
Undefined == <<"undefined">>

\* const [a, b] = arr: element i of arr, undefined beyond its length
element(arr, i) == IF i <= Len(arr) THEN arr[i] ELSE Undefined

\* fullAppName.replace(/^@/, '')
trimAt(str) == IF Len(str) > 0 /\ str[1] = "@" THEN Tail(str) ELSE str

\* part => part.charAt(0).toUpperCase() + part.slice(1).toLowerCase()
capitalize(part) == toUpperCase(charAt0(part)) \o toLowerCase(slice1(part))

\* a mutant of capitalize: the separator is kept in front of the part
capitalizeKeepHyphen(part) == <<"-">> \o capitalize(part)

\* the mapping callback of toPascalCase
pascalPart(part) == capitalize(part)

toPascalCase(str) ==
  LET parts == split(str, "-")
  IN join([i \in 1..Len(parts) |-> pascalPart(parts[i])])

\* a mutant of camelFirst: the first segment is capitalised like the others
camelFirstCapitalized(first) == capitalize(first)

\* first.toLowerCase()
camelFirst(first) == toLowerCase(first)

ApiSuffix == <<"A", "p", "i">>

toCamelCasePlusApi(str) ==
  LET parts == split(str, "-")
      first == Head(parts)
      rest  == Tail(parts)
      camel == join(<<camelFirst(first)>> \o [i \in 1..Len(rest) |-> capitalize(rest[i])])
  IN camel \o ApiSuffix

\* a mutant of throwsTypeError: undefined is taken for the text 'undefined'
neverThrows(str) == FALSE

\* str.split on undefined throws a TypeError
throwsTypeError(str) == str = Undefined

(***************************************************************************)
(* Paths (POSIX path.join: concatenate with "/", then normalise).          *)
(***************************************************************************)
\* process.cwd()
Cwd == << <<"home">>, <<"u">> >>

Dot == <<".">>
DotDot == <<".", ".">>

RECURSIVE normalizeOnto(_, _)
normalizeOnto(base, segs) ==
  IF segs = <<>> THEN base
  ELSE LET s == Head(segs)
       IN IF s = <<>> \/ s = Dot THEN normalizeOnto(base, Tail(segs))
          ELSE IF s = DotDot
               THEN normalizeOnto(IF base = <<>> THEN <<>>
                                  ELSE SubSeq(base, 1, Len(base) - 1), Tail(segs))
               ELSE normalizeOnto(Append(base, s), Tail(segs))

\* path.join(base, str) for a normalised absolute base
pathJoin(base, str) == normalizeOnto(base, split(str, "/"))

\* the containing directory of a path
dirname(path) == SubSeq(path, 1, Len(path) - 1)

IsPrefix(p, q) == Len(p) <= Len(q) /\ SubSeq(q, 1, Len(p)) = p

\* a path and all its ancestors
Ancestors(path) == {SubSeq(path, 1, n) : n \in 0..Len(path)}

(***************************************************************************)
(* The constants main derives from the answers (lines 33-42).              *)
(***************************************************************************)
\* a mutant of trimmedAppName: every leading '@' is stripped
RECURSIVE trimAllAt(_)
trimAllAt(fullAppName) ==
  IF Len(fullAppName) > 0 /\ fullAppName[1] = "@" THEN trimAllAt(Tail(fullAppName))
  ELSE fullAppName

trimmedAppName(fullAppName) == trimAt(fullAppName)

organizationName(fullAppName) == element(split(trimmedAppName(fullAppName), "/"), 1)

applicationName(fullAppName) == element(split(trimmedAppName(fullAppName), "/"), 2)

\* a mutant of baseDir: the output is rooted at the working directory itself
baseDirCwd(appName) == Cwd

baseDir(appName) == pathJoin(Cwd, appName)

NoNames ==
  [organizationName |-> <<>>, applicationName |-> <<>>, camelAppApiName |-> <<>>,
   apiFileName |-> <<>>, pascalCaseAppName |-> <<>>, baseDir |-> <<>>]

DeriveNames(fullAppName) ==
  LET app == applicationName(fullAppName)
      camel == toCamelCasePlusApi(app)
  IN [organizationName  |-> organizationName(fullAppName),
      applicationName   |-> app,
      camelAppApiName   |-> camel,
      apiFileName       |-> camel \o <<".ts">>,
      pascalCaseAppName |-> toPascalCase(app),
      baseDir           |-> baseDir(app)]

backendDir(n) == pathJoin(n.baseDir, n.applicationName \o <<"-backend">>)
backendSrcDir(n) == pathJoin(backendDir(n), <<"src">>)
frontendDir(n) == pathJoin(n.baseDir, n.applicationName \o <<"-frontend">>)
frontendSrcDir(n) == pathJoin(frontendDir(n), <<"src">>)

(***************************************************************************)
(* The generated documents.  A content is the document with its            *)
(* interpolated fields; JSON.stringify and the template literals embed     *)
(* each field verbatim (the alphabet has no character JSON escapes).       *)
(***************************************************************************)
manifestContent(a) ==
  [tpl |-> "manifest.json", name |-> a.fullAppName, user |-> a.userName,
   email |-> a.userEmail]

phpNamespace(n) == toPascalCase(n.organizationName) \o <<"\\">> \o n.pascalCaseAppName

serviceProviderContent(n) ==
  [tpl |-> "ServiceProvider.php", namespace |-> phpNamespace(n),
   class |-> n.pascalCaseAppName \o <<"ServiceProvider">>]

routesPhp == [tpl |-> "routes/api.php"]

composerJson(a, n) ==
  [tpl |-> "composer.json",
   name |-> n.organizationName \o <<"/">> \o n.applicationName \o <<"-backend">>,
   psr4 |-> phpNamespace(n) \o <<"\\">>,
   authorName |-> a.userName, authorEmail |-> a.userEmail,
   provider |-> phpNamespace(n) \o <<"\\">> \o n.pascalCaseAppName \o <<"ServiceProvider">>,
   appName |-> a.fullAppName]

backendReadme(a, n) ==
  [tpl |-> "README.md", title |-> n.applicationName \o <<"-backend">>,
   appName |-> a.fullAppName]

messagesRoute(n) ==
  <<"/">> \o n.organizationName \o <<"/">> \o n.applicationName \o <<"/messages">>

\* a mutant of frontendPackageName: the backend's unscoped naming is used
frontendPackageNameUnscoped(n) ==
  n.organizationName \o <<"/">> \o n.applicationName \o <<"-frontend">>

frontendPackageName(n) ==
  <<"@">> \o n.organizationName \o <<"/">> \o n.applicationName \o <<"-frontend">>

frontendPackageJson(a, n) ==
  [tpl |-> "package.json",
   name |-> frontendPackageName(n),
   author |-> a.userName \o <<" <">> \o a.userEmail \o <<">">>,
   api |-> <<n.camelAppApiName>>,
   routes |-> <<messagesRoute(n), messagesRoute(n) \o <<"/:id">>>>,
   menuName |-> n.pascalCaseAppName \o <<" Application">>,
   menuPath |-> messagesRoute(n)]

frontendTsConfig == [tpl |-> "tsconfig.json"]

frontendIndexTs(n) == [tpl |-> "index.ts", api |-> n.camelAppApiName]

baseQueryTs(n) ==
  [tpl |-> "baseQuery.ts",
   routePrefix |-> <<"/api/">> \o n.organizationName \o <<"/">> \o n.applicationName]

appNameApiTs(n) ==
  [tpl |-> "appNameApi.ts", api |-> n.camelAppApiName,
   reducerPath |-> n.organizationName \o <<"-">> \o n.applicationName \o <<"-api">>]

messageTsx(n) == [tpl |-> "Message.tsx", api |-> n.camelAppApiName]

messagesTsx(n) == [tpl |-> "Messages.tsx", api |-> n.camelAppApiName]

(***************************************************************************)
(* The body of main after the derivations, statement by statement.         *)
(***************************************************************************)
MkdirOp(path) == [op |-> "mkdir", path |-> path]
WriteOp(path, content) == [op |-> "write", path |-> path, content |-> content]

rootOps(a, n) ==
  << MkdirOp(n.baseDir),
     WriteOp(pathJoin(n.baseDir, <<"manifest.json">>), manifestContent(a)) >>

\* a mutant of backendDirOps: the routes directory is never created
backendDirOpsNoRoutes(n) ==
  << MkdirOp(backendDir(n)),
     MkdirOp(pathJoin(backendDir(n), <<"database">>)),
     MkdirOp(pathJoin(pathJoin(backendDir(n), <<"database">>), <<"migrations">>)),
     MkdirOp(backendSrcDir(n)),
     MkdirOp(pathJoin(backendSrcDir(n), <<"Controllers">>)),
     MkdirOp(pathJoin(backendSrcDir(n), <<"Models">>)) >>

backendDirOps(n) ==
  << MkdirOp(backendDir(n)),
     MkdirOp(pathJoin(backendDir(n), <<"database">>)),
     MkdirOp(pathJoin(pathJoin(backendDir(n), <<"database">>), <<"migrations">>)),
     MkdirOp(pathJoin(backendDir(n), <<"routes">>)),
     MkdirOp(backendSrcDir(n)),
     MkdirOp(pathJoin(backendSrcDir(n), <<"Controllers">>)),
     MkdirOp(pathJoin(backendSrcDir(n), <<"Models">>)) >>

backendFileOps(a, n) ==
  << WriteOp(pathJoin(backendSrcDir(n), n.pascalCaseAppName \o <<"ServiceProvider.php">>),
             serviceProviderContent(n)),
     WriteOp(pathJoin(backendDir(n), <<"routes", "/", "api.php">>), routesPhp),
     WriteOp(pathJoin(backendDir(n), <<"composer.json">>), composerJson(a, n)),
     WriteOp(pathJoin(backendDir(n), <<"README.md">>), backendReadme(a, n)) >>

frontendOps(a, n) ==
  << MkdirOp(frontendDir(n)),
     MkdirOp(frontendSrcDir(n)),
     WriteOp(pathJoin(frontendDir(n), <<"package.json">>), frontendPackageJson(a, n)),
     WriteOp(pathJoin(frontendDir(n), <<"tsconfig.json">>), frontendTsConfig),
     WriteOp(pathJoin(frontendSrcDir(n), <<"index.ts">>), frontendIndexTs(n)),
     WriteOp(pathJoin(frontendSrcDir(n), <<"baseQuery.ts">>), baseQueryTs(n)),
     WriteOp(pathJoin(frontendSrcDir(n), n.apiFileName), appNameApiTs(n)),
     WriteOp(pathJoin(frontendSrcDir(n), <<"Message.tsx">>), messageTsx(n)),
     WriteOp(pathJoin(frontendSrcDir(n), <<"Messages.tsx">>), messagesTsx(n)) >>

\* the final console.log of main
summaryOp == [op |-> "summary"]

mainBody(a, n) ==
  rootOps(a, n) \o backendDirOps(n) \o backendFileOps(a, n) \o frontendOps(a, n)
    \o <<summaryOp>>

(***************************************************************************)
(* The file system (fs.existsSync, fs.mkdirSync, fs.writeFileSync).        *)
(***************************************************************************)
\* the file system before the first run: the working directory and its
\* ancestors, and two files the generator knows nothing about
InitDirs == Ancestors(Cwd)

InitFiles ==
  { [path |-> Append(Cwd, <<"notes.txt">>), content |-> [tpl |-> "unrelated"]],
    [path |-> <<<<"home">>, <<"other.txt">>>>, content |-> [tpl |-> "unrelated"]] }

IsFile(path) == \E f \in files : f.path = path

existsSync(path) == path \in dirs \/ IsFile(path)

\* a mutant of recursive: mkdirSync is called without the option
recursiveOff == FALSE

\* the option of the mkdirSync call
recursive == TRUE

\* mkdirSync throws: a component is a regular file; and, without recursive,
\* the directory is there already (EEXIST) or its parent is missing (ENOENT)
mkdirThrows(path) ==
  \/ \E p \in Ancestors(path) : IsFile(p)
  \/ ~recursive /\ (path \in dirs \/ dirname(path) \notin dirs)

mkdirResult(path) == IF recursive THEN dirs \cup Ancestors(path) ELSE dirs \cup {path}

\* writeFileSync throws: no containing directory (ENOENT), or a directory (EISDIR)
writeThrows(path) == dirname(path) \notin dirs \/ path \in dirs

writeResult(path, content) ==
  {f \in files : f.path # path} \cup {[path |-> path, content |-> content]}

\* what a write that failed half way (disk full) leaves behind
Truncated == [tpl |-> "truncated"]

(***************************************************************************)
(* The steps of one run r of the program.                                  *)
(***************************************************************************)
Op(r) == body[r][ip[r]]

\* a mutant of onThrow: the helper swallows the error and main goes on
onThrowSwallow(i) == [pc |-> "body", ip |-> i + 1]

\* an exception leaves main: its promise rejects where it stands
onThrow(i) == [pc |-> "rejected", ip |-> i]

Throw(r) ==
  /\ pc' = [pc EXCEPT ![r] = onThrow(ip[r]).pc]
  /\ ip' = [ip EXCEPT ![r] = onThrow(ip[r]).ip]

Advance(r) ==
  /\ pc' = [pc EXCEPT ![r] = "body"]
  /\ ip' = [ip EXCEPT ![r] = ip[r] + 1]

\* inquirer.prompt resolves with the three answers (lines 15-31)
Prompt(r, inputs) ==
  /\ pc[r] = "idle"
  /\ \E a \in inputs : answers' = [answers EXCEPT ![r] = a]
  /\ pc' = [pc EXCEPT ![r] = "derive"]
  /\ UNCHANGED <<body, ip, names, stdout, stderr, exitCode, dirs, files, ensured,
                 fsFailed, raced>>

\* the derivations of main (lines 33-42)
Derive(r) ==
  /\ pc[r] = "derive"
  /\ IF throwsTypeError(applicationName(answers[r].fullAppName))
     THEN /\ pc' = [pc EXCEPT ![r] = "rejected"]
          /\ UNCHANGED <<body, ip, names>>
     ELSE /\ names' = [names EXCEPT ![r] = DeriveNames(answers[r].fullAppName)]
          /\ body' = [body EXCEPT ![r] =
                        mainBody(answers[r], DeriveNames(answers[r].fullAppName))]
          /\ pc' = [pc EXCEPT ![r] = "body"]
          /\ ip' = [ip EXCEPT ![r] = 1]
  /\ UNCHANGED <<answers, stdout, stderr, exitCode, dirs, files, ensured,
                 fsFailed, raced>>

\* createDirIfNotExists, the existsSync test (line 421)
ExistsCheck(r) ==
  /\ pc[r] = "body"
  /\ Op(r).op = "mkdir"
  /\ IF existsSync(Op(r).path)
     THEN /\ Advance(r)
          /\ ensured' = [ensured EXCEPT ![r] = @ \cup {Op(r).path}]
     ELSE /\ pc' = [pc EXCEPT ![r] = "mkdir"]
          /\ UNCHANGED <<ip, ensured>>
  /\ UNCHANGED <<body, answers, names, stdout, stderr, exitCode, dirs, files,
                 fsFailed, raced>>

\* createDirIfNotExists, the mkdirSync call (line 422).  The environment may
\* refuse to create a directory (permission denied, disk full); a directory
\* that is already there needs nothing created.
MkdirSync(r) ==
  /\ pc[r] = "mkdir"
  /\ \/ /\ ~mkdirThrows(Op(r).path)
        /\ dirs' = mkdirResult(Op(r).path)
        /\ Advance(r)
        /\ ensured' = [ensured EXCEPT ![r] = @ \cup {Op(r).path}]
        /\ raced' = IF Op(r).path \in dirs THEN raced \cup {r} ELSE raced
        /\ UNCHANGED fsFailed
     \/ /\ mkdirThrows(Op(r).path) \/ Op(r).path \notin dirs
        /\ Throw(r)
        /\ fsFailed' = [fsFailed EXCEPT ![r] = TRUE]
        /\ UNCHANGED <<dirs, ensured, raced>>
  /\ UNCHANGED <<body, answers, names, stdout, stderr, exitCode, files>>

\* a mutant of createdLine: the confirmation names the containing directory
createdLineDir(filePath) == [line |-> "Created", path |-> dirname(filePath)]

\* console.log(`Created: ${filePath}`)
createdLine(filePath) == [line |-> "Created", path |-> filePath]

\* writeFileWithLog (lines 426-429).  The environment may fail any write,
\* leaving the file as it was or truncated.
writeFileWithLog(r) ==
  /\ pc[r] = "body"
  /\ Op(r).op = "write"
  /\ \/ /\ ~writeThrows(Op(r).path)
        /\ files' = writeResult(Op(r).path, Op(r).content)
        /\ stdout' = [stdout EXCEPT ![r] = Append(@, createdLine(Op(r).path))]
        /\ Advance(r)
        /\ UNCHANGED fsFailed
     \/ /\ \/ UNCHANGED files
           \/ ~writeThrows(Op(r).path) /\ files' = writeResult(Op(r).path, Truncated)
        /\ Throw(r)
        /\ fsFailed' = [fsFailed EXCEPT ![r] = TRUE]
        /\ UNCHANGED stdout
  /\ UNCHANGED <<body, answers, names, stderr, exitCode, dirs, ensured, raced>>

summaryLine(a, n) == [line |-> "summary", name |-> a.fullAppName, path |-> n.baseDir]

\* the final console.log (line 414); main returns and the process ends
Summary(r) ==
  /\ pc[r] = "body"
  /\ Op(r).op = "summary"
  /\ stdout' = [stdout EXCEPT ![r] = Append(@, summaryLine(answers[r], names[r]))]
  /\ pc' = [pc EXCEPT ![r] = "exited"]
  /\ exitCode' = [exitCode EXCEPT ![r] = 0]
  /\ UNCHANGED <<body, ip, answers, names, stderr, dirs, files, ensured, fsFailed,
                 raced>>

errorLine == [line |-> "Whoopsie-daisy! Something went wrong:"]

\* main().catch (lines 458-461)
mainCatch(r) ==
  /\ pc[r] = "rejected"
  /\ stderr' = [stderr EXCEPT ![r] = Append(@, errorLine)]
  /\ exitCode' = [exitCode EXCEPT ![r] = 1]
  /\ pc' = [pc EXCEPT ![r] = "exited"]
  /\ UNCHANGED <<body, ip, answers, names, stdout, dirs, files, ensured, fsFailed,
                 raced>>

(***************************************************************************)
(* Inputs.                                                                 *)
(***************************************************************************)
\* strings over alphabet cs of length at most n
RECURSIVE Strings(_, _)
Strings(cs, n) ==
  IF n = 0 THEN {<<>>}
  ELSE LET shorter == Strings(cs, n - 1)
       IN shorter \cup {Append(s, c) : s \in {t \in shorter : Len(t) = n - 1}, c \in cs}

UserInput(fullAppNames) ==
  [userName : {<<"Ada">>}, userEmail : {<<"ada@example.com">>},
   fullAppName : fullAppNames]

NameChars == {"@", "/", "-", "a", "b"}
RunChars == {"@", "/", "-", ".", "a"}
PairChars == {"/", ".", "a"}

NameInputs == UserInput(Strings(NameChars, MaxNameLen))
RunInputs == UserInput(Strings(RunChars, MaxRunNameLen))
RerunInputs == UserInput(Strings(PairChars, MaxRerunNameLen))
RaceInputs == UserInput(Strings(PairChars, MaxRaceNameLen))

NoAnswers == [userName |-> <<>>, userEmail |-> <<>>, fullAppName |-> <<>>]

(***************************************************************************)
(* Specifications.                                                         *)
(***************************************************************************)
Init ==
  /\ pc = [r \in Runs |-> "idle"]
  /\ body = [r \in Runs |-> <<>>]
  /\ ip = [r \in Runs |-> 0]
  /\ answers = [r \in Runs |-> NoAnswers]
  /\ names = [r \in Runs |-> NoNames]
  /\ stdout = [r \in Runs |-> <<>>]
  /\ stderr = [r \in Runs |-> <<>>]
  /\ exitCode = [r \in Runs |-> -1]
  /\ dirs = InitDirs
  /\ files = InitFiles
  /\ ensured = [r \in Runs |-> {}]
  /\ fsFailed = [r \in Runs |-> FALSE]
  /\ raced = {}

\* the steps of run r once its prompt has resolved
Step(r) ==
  \/ Derive(r)
  \/ ExistsCheck(r)
  \/ MkdirSync(r)
  \/ writeFileWithLog(r)
  \/ Summary(r)
  \/ mainCatch(r)

\* one run of the generator
Next ==
  \/ Prompt(1, RunInputs)
  \/ Step(1)

Spec == Init /\ [][Next]_vars

\* name derivation alone, over a larger set of names
NextNames ==
  \/ Prompt(1, NameInputs)
  \/ Derive(1)
  \/ mainCatch(1)

SpecNames == Init /\ [][NextNames]_vars

\* the user runs the generator again, with the same answers, once the first
\* run has ended
PromptAgain ==
  /\ pc[1] = "exited"
  /\ pc[2] = "idle"
  /\ answers' = [answers EXCEPT ![2] = answers[1]]
  /\ pc' = [pc EXCEPT ![2] = "derive"]
  /\ UNCHANGED <<body, ip, names, stdout, stderr, exitCode, dirs, files, ensured,
                 fsFailed, raced>>

NextRerun ==
  \/ Prompt(1, RerunInputs)
  \/ PromptAgain
  \/ \E r \in Runs : Step(r)

SpecRerun == Init /\ [][NextRerun]_vars

\* two runs of the generator at once, given the same answers: two processes,
\* whose file system calls interleave
PromptSame ==
  /\ pc[1] # "idle"
  /\ pc[2] = "idle"
  /\ answers' = [answers EXCEPT ![2] = answers[1]]
  /\ pc' = [pc EXCEPT ![2] = "derive"]
  /\ UNCHANGED <<body, ip, names, stdout, stderr, exitCode, dirs, files, ensured,
                 fsFailed, raced>>

NextRace ==
  \/ Prompt(1, RaceInputs)
  \/ PromptSame
  \/ \E r \in Runs : Step(r)

SpecRace == Init /\ [][NextRace]_vars

(***************************************************************************)
(* Properties of name derivation (checked under SpecNames).                *)
(***************************************************************************)
Derived(r) == pc[r] \notin {"idle", "derive"}

Count(str, c) == Cardinality({i \in 1..Len(str) : str[i] = c})

\* position of the k-th occurrence of c in str
Nth(str, c, k) ==
  CHOOSE i \in 1..Len(str) :
    str[i] = c /\ Cardinality({j \in 1..i : str[j] = c}) = k

\* a name as typed, less one leading '@' if it has one
LessOneAt(str) ==
  IF str # <<>> /\ str[1] = "@" THEN SubSeq(str, 2, Len(str)) ELSE str

BeforeFirstSlash(str) == SubSeq(str, 1, Nth(str, "/", 1) - 1)

AfterFirstSlash(str) == SubSeq(str, Nth(str, "/", 1) + 1, Len(str))

\* the text between the first '/' and the second, or the end
UpToSecondSlash(str) ==
  IF Count(str, "/") >= 2
  THEN SubSeq(str, Nth(str, "/", 1) + 1, Nth(str, "/", 2) - 1)
  ELSE AfterFirstSlash(str)

\* C1 as stated: once the names are derived from a fullAppName that has a '/',
\* organization is the text before the first '/' of the name less one leading
\* '@', and application is ALL the text after that first '/'.
C1_SplitOnFirstSlash ==
  LET t == LessOneAt(answers[1].fullAppName)
  IN (pc[1] = "body" /\ Count(t, "/") >= 1) =>
       /\ names[1].organizationName = BeforeFirstSlash(t)
       /\ names[1].applicationName = AfterFirstSlash(t)

\* C1 amended: at most one leading '@' is stripped and the rest is split at
\* every '/': organization is the text before the first '/', application is
\* the text between the first '/' and the second (up to the end when there is
\* no second); a name without '/' leaves application undefined and derives
\* no names at all.
C1_SplitOnEverySlash ==
  LET t == LessOneAt(answers[1].fullAppName)
  IN Derived(1) =>
       IF Count(t, "/") >= 1
       THEN /\ pc[1] = "body"
            /\ names[1].organizationName = BeforeFirstSlash(t)
            /\ names[1].applicationName = UpToSecondSlash(t)
       ELSE /\ pc[1] \in {"rejected", "exited"}
            /\ names[1] = NoNames

\* C1's case: names derived from a name with two leading '@' and two '/'
C1_Witness ==
  /\ pc[1] = "body"
  /\ Len(answers[1].fullAppName) >= 2
  /\ answers[1].fullAppName[1] = "@"
  /\ answers[1].fullAppName[2] = "@"
  /\ Count(answers[1].fullAppName, "/") = 2
  /\ names[1].organizationName # <<>>

IsLower(c) == IsLetterOf(LowerLetters, c)
IsUpper(c) == IsLetterOf(UpperLetters, c)

\* strings over lowercase letters and hyphens
LowerHyphen(str) == \A i \in 1..Len(str) : str[i] = "-" \/ IsLower(str[i])

HyphensBefore(str, i) == Cardinality({j \in 1..(i - 1) : str[j] = "-"})

StartsSegment(str, i) == i = 1 \/ str[i - 1] = "-"

\* C3: for the application name s over lowercase letters and hyphens,
\* toPascalCase(s) has no hyphen; every character of s that is no hyphen
\* appears in it, in order, uppercased when it starts a segment and
\* lowercased otherwise (empty segments contribute nothing); and for every
\* way of writing s as s1 + '-' + s2, toPascalCase(s) is
\* toPascalCase(s1) + toPascalCase(s2).
C3_PascalCase ==
  LET s == names[1].applicationName
      p == names[1].pascalCaseAppName
  IN (pc[1] = "body" /\ LowerHyphen(s)) =>
       /\ \A k \in 1..Len(p) : p[k] # "-"
       /\ Len(p) = Len(s) - Count(s, "-")
       /\ \A i \in 1..Len(s) :
            s[i] # "-" =>
              p[i - HyphensBefore(s, i)] =
                (IF StartsSegment(s, i) THEN UpperChar(s[i]) ELSE LowerChar(s[i]))
       /\ \A i \in 1..Len(s) :
            s[i] = "-" =>
              p = toPascalCase(SubSeq(s, 1, i - 1))
                    \o toPascalCase(SubSeq(s, i + 1, Len(s)))

\* C3's case: an application name with an empty segment between two letters
C3_Witness ==
  /\ pc[1] = "body"
  /\ names[1].applicationName = <<"a", "-", "-", "b">>
  /\ names[1].pascalCaseAppName = <<"A", "B">>

EndsWithApi(str) ==
  Len(str) >= 3 /\ SubSeq(str, Len(str) - 2, Len(str)) = <<"A", "p", "i">>

\* C4 as stated: for every application name s over lowercase letters and
\* hyphens, the empty one and those beginning with a hyphen included,
\* toCamelCasePlusApi(s) ends with 'Api' and begins with a lowercase letter.
C4_CamelAlwaysLower ==
  LET s == names[1].applicationName
      c == names[1].camelAppApiName
  IN (pc[1] = "body" /\ LowerHyphen(s)) => (EndsWithApi(c) /\ IsLower(c[1]))

\* C4 amended: for every application name s over lowercase letters and
\* hyphens, toCamelCasePlusApi(s) ends with 'Api'; its first character is
\* lowercase when s is not empty and does not begin with a hyphen, and is
\* uppercase when s is empty or begins with a hyphen.
C4_CamelLowerFirstSegment ==
  LET s == names[1].applicationName
      c == names[1].camelAppApiName
  IN (pc[1] = "body" /\ LowerHyphen(s)) =>
       /\ EndsWithApi(c)
       /\ IF s # <<>> /\ s[1] # "-" THEN IsLower(c[1]) ELSE IsUpper(c[1])

\* C4's case: a two-segment name, camel-cased
C4_Witness ==
  /\ pc[1] = "body"
  /\ names[1].applicationName = <<"a", "b", "-", "b">>
  /\ names[1].camelAppApiName = <<"a", "b", "B", "A", "p", "i">>

(***************************************************************************)
(* What the statements of a body before statement k leave behind.          *)
(***************************************************************************)
MkdirsBefore(b, k) == {i \in 1..(k - 1) : b[i].op = "mkdir"}

WritesBefore(b, k) == {i \in 1..(k - 1) : b[i].op = "write"}

ExpectedDirs(b, k) ==
  InitDirs \cup UNION {Ancestors(b[i].path) : i \in MkdirsBefore(b, k)}

ExpectedFiles(b, k) ==
  {f \in InitFiles : \A i \in WritesBefore(b, k) : b[i].path # f.path}
    \cup {[path |-> b[i].path, content |-> b[i].content] : i \in WritesBefore(b, k)}

IsWrite(o) == o.op = "write"

ExpectedLog(b, k) ==
  LET w == SelectSeq(SubSeq(b, 1, k - 1), IsWrite)
  IN [i \in 1..Len(w) |-> [line |-> "Created", path |-> w[i].path]]

CreatedLines(r, path) ==
  {i \in 1..Len(stdout[r]) : stdout[r][i].line = "Created" /\ stdout[r][i].path = path}

HasSlash(fullAppName) == Count(fullAppName, "/") >= 1

(***************************************************************************)
(* Properties of one run (checked under Spec).                             *)
(***************************************************************************)
\* C2 as stated: a run whose fullAppName has no '/' is not aborted: it ends
\* with exit code 0, its summary printed and its manifest written.
C2_NoSlashRunsToCompletion ==
  (pc[1] = "exited" /\ ~HasSlash(answers[1].fullAppName)) =>
    /\ exitCode[1] = 0
    /\ stdout[1] # <<>>
    /\ \E f \in files : f.content.tpl = "manifest.json"

\* C2 amended: a run whose fullAppName has no '/' aborts in name derivation
\* (application is undefined and toCamelCasePlusApi throws on it), before any
\* file system operation: nothing is created or written, no confirmation is
\* printed, one error line is printed and the exit code is 1.
C2_NoSlashAborts ==
  (Derived(1) /\ ~HasSlash(answers[1].fullAppName)) =>
    /\ pc[1] \in {"rejected", "exited"}
    /\ dirs = InitDirs /\ files = InitFiles
    /\ stdout[1] = <<>>
    /\ ~fsFailed[1]
    /\ pc[1] = "exited" => (exitCode[1] = 1 /\ stderr[1] = <<errorLine>>)

\* C2's case: a run given a name without '/' has ended
C2_Witness ==
  /\ pc[1] = "exited"
  /\ answers[1].fullAppName = <<"a", "-", "a">>

C6_DirectoryEnsuredBeforeWrite ==
  /\ (pc[1] = "body" /\ Op(1).op = "write") =>
       \E d \in ensured[1] : IsPrefix(dirname(Op(1).path), d)
  /\ body[1] # <<>> => Cardinality(WritesBefore(body[1], Len(body[1]) + 1)) = 12

\* C6's case: the run is about to write routes/api.php
C6_Witness ==
  /\ pc[1] = "body"
  /\ Op(1).op = "write"
  /\ Op(1).content.tpl = "routes/api.php"
  /\ names[1].applicationName = <<"a", "-", "a">>

\* C7 as stated: after a successful run the output holds exactly one
\* 'Created:' line for each file written and for each directory created.
C7_LinePerFileAndDirectory ==
  exitCode[1] = 0 =>
    \A p \in (dirs \ InitDirs) \cup {f.path : f \in files \ InitFiles} :
      Cardinality(CreatedLines(1, p)) = 1

\* C7 amended: after a successful run the output is exactly one 'Created:'
\* line for each of the files written, in the order written and naming its
\* path, and none for a directory, followed by the summary line naming
\* fullAppName and the base path; and at no time is there a confirmation
\* line for a write that did not succeed.
C7_LinePerFile ==
  /\ exitCode[1] = 0 =>
       /\ stdout[1] = ExpectedLog(body[1], Len(body[1]))
                        \o << [line |-> "summary", name |-> answers[1].fullAppName,
                               path |-> names[1].baseDir] >>
       /\ \A f \in files \ InitFiles : Cardinality(CreatedLines(1, f.path)) = 1
       /\ \A d \in dirs : CreatedLines(1, d) = {}
  /\ \A i \in 1..Len(stdout[1]) :
       stdout[1][i].line = "Created" =>
         \E k \in WritesBefore(body[1], ip[1]) :
           /\ body[1][k].path = stdout[1][i].path
           /\ [path |-> body[1][k].path, content |-> body[1][k].content] \in files
  /\ Cardinality({i \in 1..Len(stdout[1]) : stdout[1][i].line = "Created"})
       = IF body[1] = <<>> THEN 0 ELSE Cardinality(WritesBefore(body[1], ip[1]))

\* C7's case: a successful run, its thirteen lines printed
C7_Witness ==
  /\ exitCode[1] = 0
  /\ Len(stdout[1]) = 13
  /\ dirs # InitDirs

\* a name of the shape '@organization/application', with or without the '@'
OneSlash(fullAppName) == Count(fullAppName, "/") = 1

\* camelApiName, character by character: hyphens dropped, a character after
\* a hyphen uppercased, every other one lowercased, then 'Api'
CamelApiOf(s) ==
  LET kept == {i \in 1..Len(s) : s[i] # "-"}
      at(k) == CHOOSE i \in kept : i - HyphensBefore(s, i) = k
  IN [k \in 1..Cardinality(kept) |->
        IF at(k) > 1 /\ s[at(k) - 1] = "-" THEN UpperChar(s[at(k)])
        ELSE LowerChar(s[at(k)])] \o <<"A", "p", "i">>

\* C9: for a fullAppName '@organization/application' or
\* 'organization/application', the frontend package manifest has the name
\* '@' + organization + '/' + application + '-frontend' and the API list
\* [camelApiName], the API module is the file camelApiName + '.ts' in the
\* frontend src directory, and the root manifest's name is fullAppName as
\* typed; a successful run has written all three.
C9_FrontendManifestNames ==
  LET full == answers[1].fullAppName
      org == BeforeFirstSlash(LessOneAt(full))
      app == AfterFirstSlash(LessOneAt(full))
      Last(path) == path[Len(path)]
  IN (Derived(1) /\ OneSlash(full)) =>
       /\ \A f \in files :
            /\ f.content.tpl = "package.json" =>
                 /\ f.content.name = <<"@">> \o org \o <<"/">> \o app \o <<"-frontend">>
                 /\ f.content.api = <<CamelApiOf(app)>>
            /\ f.content.tpl = "appNameApi.ts" =>
                 /\ Last(f.path) = CamelApiOf(app) \o <<".ts">>
                 /\ Last(dirname(f.path)) = <<"src">>
            /\ f.content.tpl = "manifest.json" => f.content.name = full
       /\ exitCode[1] = 0 =>
            \A t \in {"package.json", "appNameApi.ts", "manifest.json"} :
              \E f \in files : f.content.tpl = t

\* C9's case: a successful run for '@a/a' wrote the manifest
C9_Witness ==
  /\ exitCode[1] = 0
  /\ answers[1].fullAppName = <<"@", "a", "/", "a">>
  /\ \E f \in files :
       /\ f.content.tpl = "package.json"
       /\ f.content.name = <<"@", "a", "/", "a", "-frontend">>

(***************************************************************************)
(* Properties of a repeated run (checked under SpecRerun).                 *)
(***************************************************************************)
\* inside the tree <cwd>/<application>/, its root included
InTree(app, path) == IsPrefix(Append(Cwd, app), path)

OnlyInsideTree(app) ==
  /\ \A d \in dirs \ InitDirs : InTree(app, d)
  /\ \A f \in files \ InitFiles : InTree(app, f.path)

\* the latest run that was started has ended successfully
LastRunSucceeded ==
  \/ exitCode[2] = 0
  \/ exitCode[1] = 0 /\ pc[2] = "idle"

SingleRunTree ==
  /\ dirs = ExpectedDirs(body[1], Len(body[1]))
  /\ files = ExpectedFiles(body[1], Len(body[1]))

\* C8 as stated: for every input, whatever a first or a repeated run creates
\* or writes lies inside <cwd>/<application>/, nothing in cwd itself or above
\* it; and once a repeated run has succeeded the tree is that of a single run.
C8_EveryInputInsideTree ==
  /\ body[1] # <<>> => OnlyInsideTree(names[1].applicationName)
  /\ LastRunSucceeded => SingleRunTree

\* C8 amended: for every input whose application part is not empty and is
\* neither '.' nor '..', whatever a first or a repeated run creates or writes
\* lies inside <cwd>/<application>/, and the files that were there before are
\* untouched; and, for every input, once a first or a repeated run has
\* succeeded the tree is that of a single run.
C8_NamedApplicationInsideTree ==
  /\ (body[1] # <<>> /\ names[1].applicationName \notin {<<>>, Dot, DotDot}) =>
       /\ OnlyInsideTree(names[1].applicationName)
       /\ InitFiles \subseteq files
  /\ LastRunSucceeded => SingleRunTree

\* C8's case: a second run for application 'a' has succeeded after the first
C8_Witness ==
  /\ exitCode[1] = 0
  /\ exitCode[2] = 0
  /\ names[2].applicationName = <<"a">>
  /\ Len(stdout[2]) = 13

(***************************************************************************)
(* Properties of two runs at once (checked under SpecRace).                *)
(***************************************************************************)
\* run r takes a step
Stepped(r) == pc'[r] # pc[r] \/ ip'[r] # ip[r]

\* createDirIfNotExists returns to main, the file system as it was
ReturnsUnchanged(r) ==
  /\ pc'[r] = "body"
  /\ ip'[r] = ip[r] + 1
  /\ ~fsFailed'[r]
  /\ dirs' = dirs
  /\ files' = files

\* C10: a step of createDirIfNotExists on a path that is a directory already
\* changes nothing and does not fail, both at the existence test and, when
\* another run created the directory after this run's existence test found
\* it missing, at the create call: the run goes on with its next statement.
C10_CreateDirIdempotent ==
  [][\A r \in Runs :
       /\ (pc[r] = "body" /\ Op(r).op = "mkdir" /\ Op(r).path \in dirs /\ Stepped(r))
            => ReturnsUnchanged(r)
       /\ (pc[r] = "mkdir" /\ Op(r).path \in dirs /\ Stepped(r))
            => ReturnsUnchanged(r)]_vars

\* C10's case: a run whose create call found the directory already created
\* by the other run went on to succeed
C10_Witness ==
  \E r \in raced :
    /\ exitCode[r] = 0
    /\ \E q \in Runs \ {r} : ensured[q] # {}

====
